---------------------------- MODULE Spec2Model ----------------------------
(***************************************************************************)
(* The MACE developer notebook (src/mace-devs/MACE_developer.ipynb) as a   *)
(* state machine.  The notebook is a straight-line program: it creates a   *)
(* model, builds the graph of a configuration, batches it, and then calls  *)
(* the blocks of the model one after the other (embeddings, interaction,   *)
(* symmetric product, readout, graph sum).  Every cell that computes a     *)
(* tensor is one action; the variables are the notebook's own variables.   *)
(*                                                                         *)
(* Abstractions.  Geometry is restricted to a line, so that an edge vector *)
(* is an integer, its length is its absolute value and its direction is    *)
(* its sign; on a line every degree-l block has one non-vanishing          *)
(* component, which is the one the model keeps.  A tensor entry is either  *)
(* NaN or an integer modulo Q (floating point is not modelled).  Tensors   *)
(* are sequences, so the notebook's index i is i+1 here.                   *)
(***************************************************************************)
EXTENDS Integers, Sequences, FiniteSets, TLC

(* ------------------------------ bounds --------------------------------- *)
MaxNodes == 2        \* atoms in the whole dataset
MaxGraphs == 2       \* structures in the dataset
MaxCoord == 1        \* positions are 0 .. MaxCoord
MaxRMax == 3         \* cutoffs are 0 .. MaxRMax
MaxLayers == 2       \* num_interactions is 1 .. MaxLayers
NumChannels == 2     \* channels per degree (32 in the notebook)
NumHidden == 2       \* hidden width of the last readout (16 in the notebook)
Q == 7               \* tensor entries are integers modulo Q
MaxPermLen == 4      \* all permutations are tried up to this length
NumSeeds == 2        \* parameter initialisations
MaxLmax == 3         \* angular encoders of l_max = 0 .. MaxLmax are tried
MaxDist == 5         \* the sampled distances are 1 .. MaxDist

(* ------------------------- the model's config -------------------------- *)
z_table == <<1, 8>>
atomic_energies == <<-1, -3>>
num_elements == 2
num_bessel == 8
max_ell == 2
hidden_max_ell == 1
correlation == 3

CellLen == MaxCoord + 1

(* --------------------------- tensor entries ---------------------------- *)
Fin(x) == [nan |-> FALSE, v |-> x % Q]
NaN == [nan |-> TRUE, v |-> 0]
Zero == Fin(0)
VAdd(a, b) == IF a.nan \/ b.nan THEN NaN ELSE Fin(a.v + b.v)
VMul(a, b) == IF a.nan \/ b.nan THEN NaN ELSE Fin(a.v * b.v)
IsFinite(a) == ~a.nan

RECURSIVE VSum(_)
VSum(s) == IF s = <<>> THEN Zero ELSE VAdd(Head(s), VSum(Tail(s)))

\* The tensor with entries f[1] .. f[n].
RECURSIVE Tensor(_, _)
Tensor(f, n) == IF n = 0 THEN <<>> ELSE Append(Tensor(f, n - 1), f[n])

ZeroRow(width) == [k \in 1..width |-> Zero]
RowAdd(a, b) == Tensor([k \in 1..Len(a) |-> VAdd(a[k], b[k])], Len(a))

Abs(x) == IF x < 0 THEN -x ELSE x
Sign(x) == IF x < 0 THEN -1 ELSE IF x > 0 THEN 1 ELSE 0

RECURSIVE Pow(_, _)
Pow(x, n) == IF n = 0 THEN 1 ELSE x * Pow(x, n - 1)

RECURSIVE SumTo(_, _)
SumTo(f, n) == IF n = 0 THEN 0 ELSE f[n] + SumTo(f, n - 1)

RECURSIVE Concat(_)
Concat(ss) == IF ss = <<>> THEN <<>> ELSE Head(ss) \o Concat(Tail(ss))

Range(s) == {s[k] : k \in 1..Len(s)}
Perms(n) == {p \in [1..n -> 1..n] : \A i, j \in 1..n : p[i] = p[j] => i = j}
Swap(n, a, b) == [k \in 1..n |-> IF k = a THEN b ELSE IF k = b THEN a ELSE k]
\* The orderings a reduction is compared under: every permutation of a short
\* list, every exchange of two places of a long one.
Reorderings(n) ==
    IF n <= MaxPermLen THEN Perms(n)
    ELSE {Swap(n, a, b) : a \in 1..n, b \in 1..n}

(* ----------------------------- the inputs ------------------------------ *)
Coords == 0..MaxCoord
Configurations(n) ==
    {[atomic_numbers |-> z, positions |-> p, pbc |-> periodic] :
        z \in [1..n -> Range(z_table)], p \in [1..n -> Coords],
        periodic \in IF n = 0 THEN {FALSE} ELSE BOOLEAN}
AllConfigurations == UNION {Configurations(n) : n \in 0..MaxNodes}
NumAtoms(config) == Len(config.positions)
Datasets ==
    UNION {{ds \in [1..k -> AllConfigurations] :
               SumTo([g \in 1..k |-> NumAtoms(ds[g])], k) <= MaxNodes} :
           k \in 1..MaxGraphs}

(* --------------------------- graph building ---------------------------- *)
\* The periodic images a pair is searched over: none but the cell itself
\* without periodicity, else every image that can lie within the cutoff.
Images(r, periodic) ==
    IF periodic /\ r >= 0
    THEN LET n == ((r + MaxCoord) \div CellLen) + 1 IN {k * CellLen : k \in -n..n}
    ELSE {0}

ShiftedDistance(positions, i, j, shift) ==
    Abs(positions[i] - positions[j] - shift)

QualifiesStrict(positions, i, j, shift, r) ==
    /\ (i # j \/ shift # 0)
    /\ ShiftedDistance(positions, i, j, shift) < r

Qualifies(positions, i, j, shift, r) ==
    /\ (i # j \/ shift # 0)
    /\ ShiftedDistance(positions, i, j, shift) <= r

\* The candidate (sender, receiver, shift) triples in the order of the search.
RECURSIVE SetToSeq(_)
SetToSeq(S) ==
    IF S = {} THEN <<>>
    ELSE LET m == CHOOSE x \in S : \A y \in S : x <= y
         IN <<m>> \o SetToSeq(S \ {m})

Candidates(n, r, periodic) ==
    LET sh == SetToSeq(Images(r, periodic))
    IN Concat([i \in 1..n |->
          Concat([j \in 1..n |-> [k \in 1..Len(sh) |-> <<i, j, sh[k]>>]])])

get_neighborhood(positions, r, periodic) ==
    SelectSeq(Candidates(Len(positions), r, periodic),
              LAMBDA c : Qualifies(positions, c[1], c[2], c[3], r))

atomic_numbers_to_indices(zs) ==
    [i \in 1..Len(zs) |-> CHOOSE k \in 1..Len(z_table) : z_table[k] = zs[i]]

to_one_hot(indices, num_classes) ==
    [i \in 1..Len(indices) |->
        [z \in 1..num_classes |-> IF z = indices[i] THEN 1 ELSE 0]]

\* data.AtomicData.from_config: no check of the configuration or the cutoff
\* stands between the call and the graph.
from_config(config, r) ==
    LET nb == get_neighborhood(config.positions, r, config.pbc)
    IN [num_nodes  |-> NumAtoms(config),
        positions  |-> config.positions,
        node_attrs |-> to_one_hot(atomic_numbers_to_indices(config.atomic_numbers),
                                  num_elements),
        edge_index |-> [e \in 1..Len(nb) |-> <<nb[e][1], nb[e][2]>>],
        shifts     |-> [e \in 1..Len(nb) |-> nb[e][3]]]

(* ------------------------------ batching ------------------------------- *)
\* ptr[g] is the number of nodes of the graphs before graph g.
Ptr(graphs, g) == SumTo([h \in 1..Len(graphs) |-> graphs[h].num_nodes], g - 1)

OffsetSendersOnly(graphs, g) ==
    [e \in 1..Len(graphs[g].edge_index) |->
        <<graphs[g].edge_index[e][1] + Ptr(graphs, g), graphs[g].edge_index[e][2]>>]

OffsetEdges(graphs, g) ==
    [e \in 1..Len(graphs[g].edge_index) |->
        <<graphs[g].edge_index[e][1] + Ptr(graphs, g),
          graphs[g].edge_index[e][2] + Ptr(graphs, g)>>]

collate(graphs) ==
    LET G == Len(graphs)
    IN [num_graphs |-> G,
        num_nodes  |-> Ptr(graphs, G + 1),
        ptr        |-> [g \in 1..G + 1 |-> Ptr(graphs, g)],
        positions  |-> Concat([g \in 1..G |-> graphs[g].positions]),
        node_attrs |-> Concat([g \in 1..G |-> graphs[g].node_attrs]),
        edge_index |-> Concat([g \in 1..G |-> OffsetEdges(graphs, g)]),
        shifts     |-> Concat([g \in 1..G |-> graphs[g].shifts]),
        batch      |-> Concat([g \in 1..G |->
                          [i \in 1..graphs[g].num_nodes |-> g]])]

EmptyBatch == collate(<<>>)


(* ------------------------- the model (modules.MACE) -------------------- *)
\* The readout of each layer: linear, and the MLP on the last one.
ReadoutByEquation(S) ==
    [s \in 1..S |-> IF s = S THEN "NonLinearReadoutBlock"
                    ELSE IF 1 < s THEN "LinearReadoutBlock" ELSE "none"]

Readouts(S) ==
    [s \in 1..S |-> IF s = S THEN "NonLinearReadoutBlock" ELSE "LinearReadoutBlock"]

\* modules.MACE(**model_config): the parameters are those the seed draws.
MACE(cutoff, S, seed) ==
    [r_max            |-> cutoff,
     num_interactions |-> S,
     readouts         |-> Readouts(S),
     seed             |-> seed]

\* One learnable weight of block `tag`, as the seed initialises it.
Weight(m, tag, a, b, c) == 1 + ((m.seed + tag + a + 2 * b + 3 * c) % 3)

Scale(w, a) == VMul(Fin(w), a)
\* The smooth nonlinearity (silu), as a polynomial over the entries.
gate(a) == VAdd(VMul(a, a), a)

Ch == 1..NumChannels
\* Column x of a tensor of blocks of NumChannels columns: its block, its channel.
BlockOf(x) == (x - 1) \div NumChannels
ChanOf(x) == ((x - 1) % NumChannels) + 1

(* ------------------------------ embeddings ----------------------------- *)
\* modules.utils.get_edge_vectors_and_lengths
EdgeVector(b, e) ==
    b.positions[b.edge_index[e][1]] - b.positions[b.edge_index[e][2]] - b.shifts[e]

get_edge_vectors_and_lengths(b) ==
    [vectors |-> Tensor([e \in 1..Len(b.edge_index) |-> EdgeVector(b, e)], Len(b.edge_index)),
     lengths |-> Tensor([e \in 1..Len(b.edge_index) |-> Abs(EdgeVector(b, e))], Len(b.edge_index))]

\* What the normalisation of a vector of norm 0 can give: 0/0, or the zero
\* vector where the norm is clamped.  It raises no error.
ZeroNormOutcomes == {"nan", "zero"}

\* A mis-sized block of degree l: l + 1 components.
YBlockShort(l, vector, fill) ==
    [c \in 1..l + 1 |-> IF c = l + 1 THEN Fin(Pow(Sign(vector), l)) ELSE Zero]

\* The 2l+1 components Y_l^m, m = -l .. l, of the unit vector: on a line
\* only m = 0, the middle one, does not vanish.
YBlock(l, vector, fill) ==
    [c \in 1..2 * l + 1 |->
        IF vector # 0
        THEN IF c = l + 1 THEN Fin(Pow(Sign(vector), l)) ELSE Zero
        ELSE IF l = 0 THEN Fin(1)
        ELSE IF fill = "nan" THEN NaN ELSE Zero]

\* The blocks of degree 0 .. l_max one after the other.
SphericalHarmonicsUpTo(l_max, vector, fill) ==
    Concat([l1 \in 1..l_max + 1 |-> YBlock(l1 - 1, vector, fill)])

\* model.spherical_harmonics: Y_l of the unit vector, l = 0 .. max_ell.
SphericalHarmonicsOf(vector, fill) == SphericalHarmonicsUpTo(max_ell, vector, fill)

\* Where the component m = 0 of degree l is in an edge attribute row.
YCentre(l) == l * l + l + 1

\* model.radial_embedding: sqrt(2/r_cut) sin(n pi r / r_cut) / r * f_cut(r).
\* At r = 0 the quotient is 0/0, with r_cut = 0 the argument of the sine is
\* r/0; the envelope vanishes from r_cut on.
EnvelopeOpen(r, r_cut) == Fin(Abs(r_cut - r) + 1)

\* f_cut: the polynomial envelope, zero from r_cut on.
f_cut(r, r_cut) == IF r < r_cut THEN Fin(r_cut - r) ELSE Zero

\* sin(n pi r / r_cut) / r: 0/0 at r = 0.
Quotient(n, r) == IF r = 0 THEN NaN ELSE Fin(n)

bessel(n, r, r_cut) ==
    IF r_cut = 0 THEN NaN
    ELSE VMul(Quotient(n, r), f_cut(r, r_cut))

\* The distances the basis is sampled at, all of them positive.
dists == [k \in 1..MaxDist |-> k]

RadialEmbeddingOf(m, length) ==
    Tensor([n \in 1..num_bessel |-> bessel(n, length, m.r_max)], num_bessel)

\* model.node_embedding: h_{i,k00} = sum_z W_{kz} delta_{z z_i}
NodeEmbeddingOf(m, attrs) ==
    Tensor([k \in Ch |->
               VSum([z \in 1..num_elements |-> Fin(Weight(m, 1, k, z, 0) * attrs[z])])],
           NumChannels)

(* --------------------------- interaction block ------------------------- *)
\* The degrees of the node features that enter layer s: the node embedding
\* is invariant, the later layers carry the hidden irreps.
NodeLs(s) == IF s = 1 THEN 0 ELSE hidden_max_ell

Coupled(l1, l2, l3) ==
    /\ Abs(l1 - l2) <= l3
    /\ l3 <= l1 + l2
    /\ (l1 + l2 + l3) % 2 = 0

\* The paths <<l1 (edge attribute), l2 (node feature), l3 (output)>> of the
\* tensor product, sorted by output degree.
PathsOf(node_max_ell) ==
    Concat([a \in 1..max_ell + 1 |->
       Concat([b \in 1..node_max_ell + 1 |->
          SelectSeq([c \in 1..max_ell + 1 |-> <<c - 1, b - 1, a - 1>>],
                    LAMBDA p : Coupled(p[1], p[2], p[3]))])])
PathsFirst == PathsOf(0)
PathsHidden == PathsOf(hidden_max_ell)
Paths(s) == IF NodeLs(s) = 0 THEN PathsFirst ELSE PathsHidden

\* interactions[s].linear_up: mixes the channels of each degree.
LinearUpOf(m, s, h) ==
    Tensor([x \in 1..Len(h) |->
        LET l == BlockOf(x)
            k == ChanOf(x)
        IN VSum([k2 \in Ch |->
                   Scale(Weight(m, 2, s + l, k, k2), h[l * NumChannels + k2])])],
           Len(h))

\* interactions[s].conv_tp_weights: the radial MLP, one weight per path and channel.
ConvTpWeightsOf(m, s, feats) ==
    Tensor([x \in 1..Len(Paths(s)) * NumChannels |->
        gate(VSum([n \in 1..num_bessel |->
                     Scale(Weight(m, 3, s, x, n) - 2, feats[n])]))],
           Len(Paths(s)) * NumChannels)

\* interactions[s].conv_tp(node_feats[sender], edge_attrs, tp_weights)
ConvTpOf(s, h, Y, w) ==
    Tensor([x \in 1..Len(Paths(s)) * NumChannels |->
        LET p == Paths(s)[BlockOf(x) + 1]
            k == ChanOf(x)
        IN VMul(w[x], VMul(Y[YCentre(p[1])], h[p[2] * NumChannels + k]))],
           Len(Paths(s)) * NumChannels)

\* mace.tools.scatter.scatter_sum(src, index, dim=0, dim_size): row index[k]
\* of the output accumulates row k of src.
RECURSIVE ScatterOverwrite(_, _, _, _)
ScatterOverwrite(out, src, index, k) ==
    IF k > Len(src) THEN out
    ELSE ScatterOverwrite([out EXCEPT ![index[k]] = src[k]], src, index, k + 1)

RECURSIVE ScatterKeepFirst(_, _, _, _)
ScatterKeepFirst(out, src, index, k) ==
    IF k > Len(src) THEN out
    ELSE ScatterKeepFirst(
            [out EXCEPT ![index[k]] =
                IF \A x \in 1..Len(@) : @[x] = Zero THEN src[k] ELSE @],
            src, index, k + 1)

RECURSIVE ScatterLoop(_, _, _, _)
ScatterLoop(out, src, index, k) ==
    IF k > Len(src) THEN out
    ELSE ScatterLoop([out EXCEPT ![index[k]] = RowAdd(@, src[k])], src, index, k + 1)

scatter_sum(src, index, dim_size, width) ==
    ScatterLoop([i \in 1..dim_size |-> ZeroRow(width)], src, index, 1)

ScatterSumAllGraphs(src, index, dim_size) ==
    Tensor([g \in 1..dim_size |-> VSum(src)], dim_size)

\* The same on a vector (dim=-1 of a squeezed tensor).
scatter_sum_1d(src, index, dim_size) ==
    LET out == scatter_sum([k \in 1..Len(src) |-> <<src[k]>>], index, dim_size, 1)
    IN Tensor([g \in 1..dim_size |-> out[g][1]], dim_size)

\* interactions[s].linear: mixes the paths and channels of each output degree.
LinearOf(m, s, msg) ==
    Tensor([x \in 1..(max_ell + 1) * NumChannels |->
        LET l3 == BlockOf(x)
            k == ChanOf(x)
            P == Paths(s)
        IN VSum([y \in 1..Len(P) * NumChannels |->
              IF P[BlockOf(y) + 1][3] = l3
              THEN Scale(Weight(m, 4, s, x, y), msg[y])
              ELSE Zero])], (max_ell + 1) * NumChannels)

\* interactions[s].reshape: reads the columns of the configured irreps.
ReshapeOf(x) == SubSeq(x, 1, (max_ell + 1) * NumChannels)

(* --------------------------- symmetric product ------------------------- *)
\* B_nu of one node: the nu-fold product of the basis A, coupled degree by
\* degree, each order built from the one before.
RECURSIVE Basis(_, _)
Basis(A, nu) ==
    IF nu = 1 THEN A
    ELSE LET B == Basis(A, nu - 1)
         IN Tensor([x \in 1..Len(A) |->
               LET l3 == BlockOf(x)
                   k == ChanOf(x)
               IN VSum([y \in 1..(max_ell + 1) * (max_ell + 1) |->
                     LET l1 == (y - 1) \div (max_ell + 1)
                         l2 == (y - 1) % (max_ell + 1)
                     IN IF Coupled(l1, l2, l3)
                        THEN VMul(B[l1 * NumChannels + k], A[l2 * NumChannels + k])
                        ELSE Zero])], Len(A))

\* products[s](node_feats, sc=None, node_attrs): the weights are those of the
\* node's species.
ProductOf(m, s, A, attrs) ==
    LET B == Tensor([nu \in 1..correlation |-> Basis(A, nu)], correlation)
    IN Tensor([x \in 1..(hidden_max_ell + 1) * NumChannels |->
          VSum([nu \in 1..correlation |->
             VSum([z \in 1..num_elements |->
                Scale(attrs[z] * Weight(m, 5, s + nu, x, z), B[nu][x])])])],
          (hidden_max_ell + 1) * NumChannels)

(* -------------------------------- readout ------------------------------ *)
Invariants(h) == SubSeq(h, 1, NumChannels)

\* LinearReadoutBlock: sum_k W_k h_{i,k00}
LinearReadoutAllChannels(m, s, h) ==
    VSum([x \in 1..Len(h) |-> Scale(Weight(m, 6, s, x, 0), h[x])])

LinearReadoutBlock(m, s, h) ==
    VSum([k \in Ch |-> Scale(Weight(m, 6, s, k, 0), Invariants(h)[k])])

\* NonLinearReadoutBlock: MLP({h_{i,k00}}_k) with one hidden layer.
NonLinearReadoutBlock(m, s, h) ==
    VSum([j \in 1..NumHidden |->
       Scale(Weight(m, 7, s, j, 0),
             gate(VSum([k \in Ch |-> Scale(Weight(m, 8, s, j, k), Invariants(h)[k])])))])

ReadoutOf(m, s, h) ==
    IF m.readouts[s] = "LinearReadoutBlock" THEN LinearReadoutBlock(m, s, h)
    ELSE NonLinearReadoutBlock(m, s, h)

(* ------------------------- the blocks on a batch ----------------------- *)
sender(b) == Tensor([e \in 1..Len(b.edge_index) |-> b.edge_index[e][1]], Len(b.edge_index))
receiver(b) == Tensor([e \in 1..Len(b.edge_index) |-> b.edge_index[e][2]], Len(b.edge_index))

\* node_feats[sender]: the rows of h at the places index names.
gather(h, index) == Tensor([e \in 1..Len(index) |-> h[index[e]]], Len(index))

spherical_harmonics(vecs, fill) ==
    Tensor([e \in 1..Len(vecs) |-> SphericalHarmonicsOf(vecs[e], fill)], Len(vecs))
radial_embedding(m, lens) ==
    Tensor([e \in 1..Len(lens) |-> RadialEmbeddingOf(m, lens[e])], Len(lens))
node_embedding(m, attrs) ==
    Tensor([i \in 1..Len(attrs) |-> NodeEmbeddingOf(m, attrs[i])], Len(attrs))
linear_up(m, s, h) == Tensor([i \in 1..Len(h) |-> LinearUpOf(m, s, h[i])], Len(h))
conv_tp_weights(m, s, feats) ==
    Tensor([e \in 1..Len(feats) |-> ConvTpWeightsOf(m, s, feats[e])], Len(feats))
conv_tp(s, h_sender, attrs, w) ==
    Tensor([e \in 1..Len(attrs) |-> ConvTpOf(s, h_sender[e], attrs[e], w[e])], Len(attrs))
linear(m, s, msg) == Tensor([i \in 1..Len(msg) |-> LinearOf(m, s, msg[i])], Len(msg))
reshape(msg) == Tensor([i \in 1..Len(msg) |-> ReshapeOf(msg[i])], Len(msg))
product(m, s, h, attrs) == Tensor([i \in 1..Len(h) |-> ProductOf(m, s, h[i], attrs[i])], Len(h))
readout(m, s, h) == Tensor([i \in 1..Len(h) |-> ReadoutOf(m, s, h[i])], Len(h))

\* The reference energy of each node's species.
node_e0(attrs) ==
    Tensor([i \in 1..Len(attrs) |->
        Fin(SumTo([z \in 1..num_elements |-> attrs[i][z] * atomic_energies[z]],
                  num_elements))], Len(attrs))

\* The sum of the atomic energies and of the layers' contributions.
SumLastLayerOnly(b, contribs) ==
    IF contribs = <<>> THEN scatter_sum_1d(node_e0(b.node_attrs), b.batch, b.num_graphs)
    ELSE contribs[Len(contribs)]

SumWithoutReference(b, contribs) ==
    Tensor([g \in 1..b.num_graphs |->
          VSum([s \in 1..Len(contribs) |-> contribs[s][g]])], b.num_graphs)

sum_contributions(b, contribs) ==
    LET e0 == scatter_sum_1d(node_e0(b.node_attrs), b.batch, b.num_graphs)
    IN Tensor([g \in 1..b.num_graphs |->
          VAdd(e0[g], VSum([s \in 1..Len(contribs) |-> contribs[s][g]]))], b.num_graphs)

(* --------------------- the same pipeline as a function ----------------- *)
\* One layer: interaction, symmetric product, readout, graph sum.
LayerPass(m, s, b, attrs_e, feats_e, h) ==
    LET up == linear_up(m, s, h)
        w == conv_tp_weights(m, s, feats_e)
        mj == conv_tp(s, gather(up, sender(b)), attrs_e, w)
        msg == scatter_sum(mj, receiver(b), b.num_nodes, Len(Paths(s)) * NumChannels)
        out == product(m, s, reshape(msg), b.node_attrs)
        en == readout(m, s, out)
    IN [node_feats |-> out,
        node_energies |-> en,
        energy |-> scatter_sum_1d(en, b.batch, b.num_graphs)]

RECURSIVE LayerContributions(_, _, _, _, _, _)
LayerContributions(m, s, b, attrs_e, feats_e, h) ==
    IF s > m.num_interactions THEN <<>>
    ELSE LET r == LayerPass(m, s, b, attrs_e, feats_e, h)
         IN <<r.energy>> \o LayerContributions(m, s + 1, b, attrs_e, feats_e, r.node_feats)

\* The energies of the graphs of batch b.
forward(m, b, fill) ==
    LET g == get_edge_vectors_and_lengths(b)
        attrs_e == spherical_harmonics(g.vectors, fill)
        feats_e == radial_embedding(m, g.lengths)
        h0 == node_embedding(m, b.node_attrs)
    IN sum_contributions(b, LayerContributions(m, 1, b, attrs_e, feats_e, h0))

(* ------------------------------- state --------------------------------- *)
VARIABLES
    pc,             \* the cell the notebook is at
    model,          \* modules.MACE(**model_config)
    dataset,        \* the configurations
    atomic_data,    \* their graphs
    batch,          \* next(iter(data_loader))
    vectors, lengths,
    radials,        \* the radial basis on the sampled distances
    sh_fill,        \* what the normalisation of a zero vector gave
    edge_attrs, edge_feats,
    node_attrs, node_feats,
    layer,          \* the layer the notebook is at, from 1
    tp_weights, mji, message,
    node_energies, energy,
    contributions,  \* the energy of each layer so far
    total,          \* the model's output
    steps,          \* the blocks run so far, in order
    layer_in,       \* the node features each layer started from
    layer_out,      \* the node features each layer's product gave
    layer_node_energies   \* the node energies each layer's readout gave

vars == <<pc, model, dataset, atomic_data, batch, vectors, lengths, radials, sh_fill,
          edge_attrs, edge_feats, node_attrs, node_feats, layer, tp_weights, mji,
          message, node_energies, energy, contributions, total, steps,
          layer_in, layer_out, layer_node_energies>>

graph_vars == <<model, dataset, atomic_data, batch>>
edge_vars == <<vectors, lengths, radials, sh_fill, edge_attrs, edge_feats>>
block_vars == <<tp_weights, mji, message>>
out_vars == <<node_energies, energy, contributions, total>>
hist_vars == <<layer_in, layer_out, layer_node_energies>>

Seeds == 1..NumSeeds

Init ==
    /\ pc = "from_config"
    /\ \E cutoff \in 0..MaxRMax, S \in 1..MaxLayers, seed \in Seeds :
          model = MACE(cutoff, S, seed)
    /\ dataset \in Datasets
    /\ atomic_data = <<>>
    /\ batch = EmptyBatch
    /\ vectors = <<>> /\ lengths = <<>> /\ sh_fill = "nan"
    /\ radials = <<>>
    /\ edge_attrs = <<>> /\ edge_feats = <<>>
    /\ node_attrs = <<>> /\ node_feats = <<>>
    /\ layer = 1
    /\ tp_weights = <<>> /\ mji = <<>> /\ message = <<>>
    /\ node_energies = <<>> /\ energy = <<>>
    /\ contributions = <<>> /\ total = <<>>
    /\ steps = <<>>
    /\ layer_in = <<>> /\ layer_out = <<>> /\ layer_node_energies = <<>>

Step(name, s) == steps' = Append(steps, <<name, s>>)

\* atomic_data = data.AtomicData.from_config(config, z_table, cutoff=model.r_max)
FromConfig ==
    /\ pc = "from_config"
    /\ atomic_data' = [g \in 1..Len(dataset) |-> from_config(dataset[g], model.r_max)]
    /\ pc' = "data_loader"
    /\ Step("graph", 0)
    /\ UNCHANGED <<model, dataset, batch, edge_vars, node_attrs, node_feats,
                   layer, block_vars, out_vars, hist_vars>>

\* DataLoader(shuffle=True, drop_last=False) and next(iter(...)): the graphs
\* are collated in an order of the loader's choosing.
DataLoader ==
    /\ pc = "data_loader"
    /\ \E order \in Perms(Len(atomic_data)) :
          batch' = collate([k \in 1..Len(atomic_data) |-> atomic_data[order[k]]])
    /\ pc' = "edge_vectors"
    /\ Step("batch", 0)
    /\ UNCHANGED <<model, dataset, atomic_data, edge_vars, node_attrs, node_feats,
                   layer, block_vars, out_vars, hist_vars>>

EdgeVectors ==
    /\ pc = "edge_vectors"
    /\ vectors' = get_edge_vectors_and_lengths(batch).vectors
    /\ lengths' = get_edge_vectors_and_lengths(batch).lengths
    /\ pc' = "spherical_harmonics"
    /\ Step("edge_vectors", 0)
    /\ UNCHANGED <<graph_vars, radials, sh_fill, edge_attrs, edge_feats, node_attrs, node_feats,
                   layer, block_vars, out_vars, hist_vars>>

\* edge_attrs = model.spherical_harmonics(vectors)
SphericalHarmonics ==
    /\ pc = "spherical_harmonics"
    /\ \E fill \in (IF 0 \in Range(vectors) THEN ZeroNormOutcomes ELSE {"nan"}) :
          /\ sh_fill' = fill
          /\ edge_attrs' = spherical_harmonics(vectors, fill)
    /\ pc' = "radial_scan"
    /\ Step("angular", 0)
    /\ UNCHANGED <<graph_vars, vectors, lengths, radials, edge_feats, node_attrs, node_feats,
                   layer, block_vars, out_vars, hist_vars>>

\* dists = np.linspace(0.1, 5.5, 100); radials = model.radial_embedding(dists)
RadialScan ==
    /\ pc = "radial_scan"
    /\ radials' = radial_embedding(model, dists)
    /\ pc' = "radial_embedding"
    /\ Step("radial_scan", 0)
    /\ UNCHANGED <<graph_vars, vectors, lengths, sh_fill, edge_attrs, edge_feats,
                   node_attrs, node_feats, layer, block_vars, out_vars, hist_vars>>

\* edge_feats = model.radial_embedding(lengths)
RadialEmbedding ==
    /\ pc = "radial_embedding"
    /\ edge_feats' = radial_embedding(model, lengths)
    /\ pc' = "node_embedding"
    /\ Step("radial", 0)
    /\ UNCHANGED <<graph_vars, vectors, lengths, radials, sh_fill, edge_attrs, node_attrs,
                   node_feats, layer, block_vars, out_vars, hist_vars>>

\* node_attrs = to_one_hot(indices); node_feats = model.node_embedding(node_attrs)
NodeEmbedding ==
    /\ pc = "node_embedding"
    /\ node_attrs' = batch.node_attrs
    /\ node_feats' = node_embedding(model, batch.node_attrs)
    /\ pc' = "linear_up"
    /\ Step("node_embedding", 0)
    /\ UNCHANGED <<graph_vars, edge_vars, layer, block_vars, out_vars, hist_vars>>

\* node_feats = model.interactions[s].linear_up(node_feats)
LinearUp ==
    /\ pc = "linear_up"
    /\ layer_in' = Append(layer_in, node_feats)
    /\ node_feats' = linear_up(model, layer, node_feats)
    /\ pc' = "conv_tp_weights"
    /\ Step("interaction", layer)
    /\ UNCHANGED <<graph_vars, edge_vars, node_attrs, layer, block_vars, out_vars,
                   layer_out, layer_node_energies>>

\* tp_weights = model.interactions[s].conv_tp_weights(edge_feats)
ConvTpWeights ==
    /\ pc = "conv_tp_weights"
    /\ tp_weights' = conv_tp_weights(model, layer, edge_feats)
    /\ pc' = "conv_tp"
    /\ UNCHANGED <<graph_vars, edge_vars, node_attrs, node_feats, layer, mji, message,
                   out_vars, steps, hist_vars>>

ConvTpInPlace ==
    /\ pc = "conv_tp"
    /\ mji' = conv_tp(layer, gather(node_feats, sender(batch)), edge_attrs, tp_weights)
    /\ edge_attrs' = [e \in 1..Len(edge_attrs) |-> ZeroRow(Len(edge_attrs[e]))]
    /\ pc' = "scatter_sum"
    /\ UNCHANGED <<graph_vars, vectors, lengths, radials, sh_fill, edge_feats, node_attrs,
                   node_feats, layer, tp_weights, message, out_vars, steps, hist_vars>>

\* mji = model.interactions[s].conv_tp(node_feats[sender], edge_attrs, tp_weights)
ConvTp ==
    /\ pc = "conv_tp"
    /\ mji' = conv_tp(layer, gather(node_feats, sender(batch)), edge_attrs, tp_weights)
    /\ pc' = "scatter_sum"
    /\ UNCHANGED <<graph_vars, edge_vars, node_attrs, node_feats, layer, tp_weights,
                   message, out_vars, steps, hist_vars>>

\* message = scatter_sum(src=mji, index=receiver, dim=0, dim_size=node_feats.shape[0])
ScatterMessage ==
    /\ pc = "scatter_sum"
    /\ message' = scatter_sum(mji, receiver(batch), Len(node_feats),
                              Len(Paths(layer)) * NumChannels)
    /\ pc' = "linear"
    /\ UNCHANGED <<graph_vars, edge_vars, node_attrs, node_feats, layer, tp_weights,
                   mji, out_vars, steps, hist_vars>>

\* node_feats = model.interactions[s].linear(message)
Linear ==
    /\ pc = "linear"
    /\ node_feats' = linear(model, layer, message)
    /\ pc' = "product"
    /\ UNCHANGED <<graph_vars, edge_vars, node_attrs, layer, block_vars, out_vars,
                   steps, hist_vars>>

\* node_feats = model.interactions[s].reshape(message)
\* node_feats = model.products[s](node_feats=node_feats, sc=None, node_attrs=...)
Product ==
    /\ pc = "product"
    /\ node_feats' = product(model, layer, reshape(message), batch.node_attrs)
    /\ layer_out' = Append(layer_out, node_feats')
    /\ pc' = "readout"
    /\ Step("contraction", layer)
    /\ UNCHANGED <<graph_vars, edge_vars, node_attrs, layer, block_vars, out_vars,
                   layer_in, layer_node_energies>>

\* node_energies = model.readouts[s](node_feats).squeeze(-1)
Readout ==
    /\ pc = "readout"
    /\ node_energies' = readout(model, layer, node_feats)
    /\ layer_node_energies' = Append(layer_node_energies, node_energies')
    /\ pc' = "graph_energy"
    /\ Step("readout", layer)
    /\ UNCHANGED <<graph_vars, edge_vars, node_attrs, node_feats, layer, block_vars,
                   energy, contributions, total, layer_in, layer_out>>

\* energy = scatter_sum(src=node_energies, index=batch["batch"], dim=-1,
\*                      dim_size=batch.num_graphs); done for each layer.
GraphEnergy ==
    /\ pc = "graph_energy"
    /\ energy' = scatter_sum_1d(node_energies, batch.batch, batch.num_graphs)
    /\ contributions' = Append(contributions, energy')
    /\ IF layer < model.num_interactions
       THEN pc' = "linear_up" /\ layer' = layer + 1
       ELSE pc' = "sum_contributions" /\ layer' = layer
    /\ Step("graph_energy", layer)
    /\ UNCHANGED <<graph_vars, edge_vars, node_attrs, node_feats, block_vars,
                   node_energies, total, hist_vars>>

\* The atomic energies and the layers' contributions are summed.
SumContributions ==
    /\ pc = "sum_contributions"
    /\ total' = sum_contributions(batch, contributions)
    /\ pc' = "done"
    /\ Step("output", 0)
    /\ UNCHANGED <<graph_vars, edge_vars, node_attrs, node_feats, layer, block_vars,
                   node_energies, energy, contributions, hist_vars>>

Next ==
    \/ FromConfig \/ DataLoader \/ EdgeVectors \/ SphericalHarmonics
    \/ RadialScan \/ RadialEmbedding \/ NodeEmbedding \/ LinearUp \/ ConvTpWeights \/ ConvTp
    \/ ScatterMessage \/ Linear \/ Product \/ Readout \/ GraphEnergy
    \/ SumContributions

Spec == Init /\ [][Next]_vars

(* ============================ the properties =========================== *)
Built == pc # "from_config"
Batched == pc \notin {"from_config", "data_loader"}

\* Every shift a pair could qualify under, whatever the builder searches.
ClaimShifts(periodic) ==
    IF periodic THEN {k * CellLen : k \in -(MaxRMax + MaxCoord + 1)..(MaxRMax + MaxCoord + 1)}
    ELSE {0}

EdgeTriple(d, e) == <<d.edge_index[e][1], d.edge_index[e][2], d.shifts[e]>>

\* C1: every edge (sender, receiver, shift) of a graph joins two atoms whose
\* shifted distance is at most r_max, and every ordered pair of atoms, an
\* atom with its own image under a non-zero shift included, whose shifted
\* distance is at most r_max is in the edge list exactly once.
C1_EdgesAreThePairsWithinCutoff ==
    Built =>
      \A g \in 1..Len(atomic_data) :
        LET d == atomic_data[g]
            pos == dataset[g].positions
        IN /\ Len(d.shifts) = Len(d.edge_index)
           /\ \A e \in 1..Len(d.edge_index) :
                 /\ d.edge_index[e][1] \in 1..d.num_nodes
                 /\ d.edge_index[e][2] \in 1..d.num_nodes
                 /\ ShiftedDistance(pos, d.edge_index[e][1], d.edge_index[e][2],
                                    d.shifts[e]) <= model.r_max
           /\ \A i, j \in 1..d.num_nodes : \A shift \in ClaimShifts(dataset[g].pbc) :
                 ((i # j \/ shift # 0)
                    /\ ShiftedDistance(pos, i, j, shift) <= model.r_max)
                 => Cardinality({e \in 1..Len(d.edge_index) :
                                   EdgeTriple(d, e) = <<i, j, shift>>}) = 1
           /\ \A e1, e2 \in 1..Len(d.edge_index) :
                 EdgeTriple(d, e1) = EdgeTriple(d, e2) => e1 = e2

\* A graph with an atom joined to its own periodic image, and with a pair of
\* distinct atoms exactly r_max apart.
C1_Witness ==
    /\ Built
    /\ \E g \in 1..Len(atomic_data) :
         LET d == atomic_data[g]
         IN /\ \E e \in 1..Len(d.edge_index) :
                  d.edge_index[e][1] = d.edge_index[e][2] /\ d.shifts[e] # 0
            /\ \E e \in 1..Len(d.edge_index) :
                  /\ d.edge_index[e][1] # d.edge_index[e][2]
                  /\ ShiftedDistance(d.positions, d.edge_index[e][1],
                                     d.edge_index[e][2], d.shifts[e]) = model.r_max

NodesOf(g) == {i \in 1..batch.num_nodes : batch.batch[i] = g}

\* C5: in every batch each sub-graph occupies a contiguous range of node
\* indices, the ranges do not overlap and cover all nodes, the graph index
\* is non-decreasing over the nodes, and every edge's sender and receiver
\* lie in the same sub-graph's range.
C5_BatchRanges ==
    Batched =>
      /\ Len(batch.batch) = batch.num_nodes
      /\ \A i \in 1..batch.num_nodes : batch.batch[i] \in 1..batch.num_graphs
      /\ \A g \in 1..batch.num_graphs :
            \A i, j \in NodesOf(g) : \A k \in i..j : k \in NodesOf(g)
      /\ \A i, j \in 1..batch.num_nodes : i <= j => batch.batch[i] <= batch.batch[j]
      /\ \A e \in 1..Len(batch.edge_index) :
            /\ batch.edge_index[e][1] \in 1..batch.num_nodes
            /\ batch.edge_index[e][2] \in 1..batch.num_nodes
            /\ batch.batch[batch.edge_index[e][1]] = batch.batch[batch.edge_index[e][2]]

\* A batch of two non-empty graphs, the second of which has an edge.
C5_Witness ==
    /\ Batched
    /\ batch.num_graphs = 2
    /\ NodesOf(1) # {} /\ NodesOf(2) # {}
    /\ \E e \in 1..Len(batch.edge_index) : batch.batch[batch.edge_index[e][1]] = 2

\* C7: graph construction with a cutoff r_max <= 0 is rejected before any
\* graph is built: no edge list, graph or batch is produced.
C7_NonPositiveCutoffRejected ==
    model.r_max <= 0 => (pc = "from_config" /\ atomic_data = <<>> /\ batch = EmptyBatch)

HasCoincidentAtoms ==
    \E g \in 1..Len(dataset) : \E i, j \in 1..NumAtoms(dataset[g]) :
        i # j /\ dataset[g].positions[i] = dataset[g].positions[j]

\* C6: a structure with two atoms at the same position ends the pipeline in
\* a DomainError: the run never gets to the radial encoder or to any later
\* block, and no energy is returned.
C6_CoincidentAtomsRejected ==
    HasCoincidentAtoms =>
       /\ pc \in {"from_config", "data_loader", "edge_vectors", "spherical_harmonics"}
       /\ edge_feats = <<>>
       /\ total = <<>>

RECURSIVE SetRowSum(_, _, _)
SetRowSum(rows, S, width) ==
    IF S = {} THEN ZeroRow(width)
    ELSE LET e == CHOOSE x \in S : TRUE
         IN RowAdd(rows[e], SetRowSum(rows, S \ {e}, width))

Incoming(i) == {e \in 1..Len(batch.edge_index) : batch.edge_index[e][2] = i}
MessageWidth == Len(Paths(layer)) * NumChannels

\* C4: the aggregated message has one row per node, the row of node i being
\* the sum of the per-edge messages of the edges whose receiver is i and the
\* zero row when no edge comes in, and it is the same whatever the order of
\* the edge list.
C4_NeighbourSum ==
    pc = "linear" =>
      /\ Len(message) = batch.num_nodes
      /\ \A i \in 1..batch.num_nodes :
            /\ message[i] = SetRowSum(mji, Incoming(i), MessageWidth)
            /\ Incoming(i) = {} => message[i] = ZeroRow(MessageWidth)
      /\ \A p \in Reorderings(Len(mji)) :
            scatter_sum([e \in 1..Len(mji) |-> mji[p[e]]],
                        [e \in 1..Len(mji) |-> receiver(batch)[p[e]]],
                        batch.num_nodes, MessageWidth) = message

\* A batch where one node has no incoming edge and another has two incoming
\* edges that carry different messages.
C4_Witness ==
    /\ pc = "linear"
    /\ \E i \in 1..batch.num_nodes : Incoming(i) = {}
    /\ \E i \in 1..batch.num_nodes : \E e1, e2 \in Incoming(i) :
          /\ mji[e1] # mji[e2]
          /\ \A k \in 1..MessageWidth : IsFinite(mji[e1][k]) /\ IsFinite(mji[e2][k])

RECURSIVE SetSum(_, _)
SetSum(f, S) ==
    IF S = {} THEN Zero
    ELSE LET i == CHOOSE x \in S : TRUE
         IN VAdd(f[i], SetSum(f, S \ {i}))

\* What node i adds to its graph: its readout of every layer and the
\* reference energy of its species.
NodeTotal(i) ==
    VAdd(node_e0(batch.node_attrs)[i],
         VSum([s \in 1..Len(layer_node_energies) |-> layer_node_energies[s][i]]))

\* The aggregator on the nodes taken in the order p.
AggregateReordered(p) ==
    LET N == batch.num_nodes
        bidx == [i \in 1..N |-> batch.batch[p[i]]]
        b == [batch EXCEPT !.node_attrs = [i \in 1..N |-> batch.node_attrs[p[i]]],
                           !.batch = bidx]
    IN sum_contributions(b,
          [s \in 1..Len(layer_node_energies) |->
              scatter_sum_1d([i \in 1..N |-> layer_node_energies[s][p[i]]],
                             bidx, batch.num_graphs)])

\* C3: the output has exactly one total per graph, the sum over the nodes of
\* that graph of their readouts of every layer and of the reference energy
\* of their species; a graph without nodes gets the total zero, and the
\* totals do not depend on the order of the nodes.
C3_GraphAggregator ==
    pc = "done" =>
      /\ DOMAIN total = 1..batch.num_graphs
      /\ Len(layer_node_energies) = model.num_interactions
      /\ \A g \in 1..batch.num_graphs :
            /\ total[g] = SetSum([i \in 1..batch.num_nodes |-> NodeTotal(i)], NodesOf(g))
            /\ NodesOf(g) = {} => total[g] = Zero
      /\ \A p \in Reorderings(batch.num_nodes) : AggregateReordered(p) = total

\* A batch with a graph of no atoms and a graph of two atoms whose finite
\* contributions differ.
C3_Witness ==
    /\ pc = "done"
    /\ \E g \in 1..batch.num_graphs : NodesOf(g) = {}
    /\ \E g \in 1..batch.num_graphs : \E i, j \in NodesOf(g) :
          /\ IsFinite(total[g])
          /\ NodeTotal(i) # NodeTotal(j)
          /\ NodeTotal(i) # Zero /\ NodeTotal(j) # Zero

\* The energy of one graph run alone through the same model.
Alone(d) == forward(model, collate(<<d>>), sh_fill)[1]

\* C2: the energy the pipeline returns for each structure of a batch is the
\* energy that structure gets when it is run alone through the same
\* pipeline with the same parameters.
C2_BatchEquivalence ==
    pc = "done" =>
      \E order \in Perms(Len(atomic_data)) :
         /\ batch = collate([k \in 1..Len(atomic_data) |-> atomic_data[order[k]]])
         /\ \A k \in 1..Len(atomic_data) : total[k] = Alone(atomic_data[order[k]])

\* A batch of two structures, each with an edge, with different finite
\* energies that are more than the reference energies of their atoms.
C2_Witness ==
    /\ pc = "done"
    /\ batch.num_graphs = 2
    /\ \A g \in 1..2 : \E e \in 1..Len(batch.edge_index) :
          batch.batch[batch.edge_index[e][2]] = g
    /\ IsFinite(total[1]) /\ IsFinite(total[2])
    /\ total[1] # total[2]
    /\ \A g \in 1..2 : \E s \in 1..Len(contributions) : contributions[s][g] # Zero

Pos(name, s) == {p \in 1..Len(steps) : steps[p] = <<name, s>>}
\* Every run of block b comes after a run of block a.
Before(a, sa, b, sb) == \A q \in Pos(b, sb) : \E p \in Pos(a, sa) : p < q
Layers == 1..MaxLayers

\* C8: the graph is built first; the angular and the radial encodings are
\* computed before any interaction layer; in each layer the interaction
\* comes before the contraction and the contraction before the readout,
\* layer by layer; layer s+1 starts from the node features layer s gave; and
\* the energy is the sum of the readouts of all layers (with the reference
\* energies), not the readout of one layer.
C8_ForwardOrder ==
    /\ steps # <<>> => steps[1] = <<"graph", 0>>
    /\ \A s \in Layers :
          /\ Before("graph", 0, "angular", 0) /\ Before("graph", 0, "radial", 0)
          /\ Before("angular", 0, "interaction", s)
          /\ Before("radial", 0, "interaction", s)
          /\ Before("interaction", s, "contraction", s)
          /\ Before("contraction", s, "readout", s)
          /\ s > 1 => Before("readout", s - 1, "interaction", s)
          /\ Cardinality(Pos("interaction", s)) <= 1
          /\ Cardinality(Pos("contraction", s)) <= 1
          /\ Cardinality(Pos("readout", s)) <= 1
    /\ \A s \in 1..Len(layer_in) :
          s > 1 => layer_in[s] = layer_out[s - 1]
    /\ pc = "done" =>
          /\ \A s \in 1..model.num_interactions : Pos("readout", s) # {}
          /\ \A g \in 1..batch.num_graphs :
                total[g] =
                  VAdd(scatter_sum_1d(node_e0(batch.node_attrs), batch.batch,
                                      batch.num_graphs)[g],
                       VSum([s \in 1..model.num_interactions |->
                               scatter_sum_1d(layer_node_energies[s], batch.batch,
                                              batch.num_graphs)[g]]))

\* A finished run of two layers in which the first layer's readout gave a
\* graph a finite energy that is not zero.
C8_Witness ==
    /\ pc = "done"
    /\ model.num_interactions = 2
    /\ Len(layer_in) = 2
    /\ \E g \in 1..batch.num_graphs :
          /\ IsFinite(total[g])
          /\ contributions[1][g] # Zero /\ contributions[2][g] # Zero

IsScalar(a) == DOMAIN a = {"nan", "v"}

HigherValues == {Zero, Fin(1), Fin(Q - 1), NaN}
\* The rows that agree with h on the channels of degree 0.
SameInvariants(h) ==
    {[x \in 1..Len(h) |-> IF x <= NumChannels THEN h[x] ELSE hi[x]] :
        hi \in [(NumChannels + 1)..Len(h) -> HigherValues]}

\* C10: node features that agree on the channels of degree 0 and differ in
\* any way on the channels of degree >= 1 get the same scalar from the
\* linear readout and the same scalar from the nonlinear readout.
C10_ReadoutReadsInvariantsOnly ==
    pc = "readout" =>
      \A i \in 1..Len(node_feats) : \A h \in SameInvariants(node_feats[i]) :
         /\ LinearReadoutBlock(model, layer, h)
              = LinearReadoutBlock(model, layer, node_feats[i])
         /\ NonLinearReadoutBlock(model, layer, h)
              = NonLinearReadoutBlock(model, layer, node_feats[i])

\* A node whose features have a finite invariant part that is not zero and
\* a part of degree >= 1 that is not zero either.
C10_Witness ==
    /\ pc = "readout"
    /\ \E i \in 1..Len(node_feats) :
          /\ Len(node_feats[i]) > NumChannels
          /\ \E x \in 1..NumChannels :
                IsFinite(node_feats[i][x]) /\ node_feats[i][x] # Zero
          /\ \E x \in (NumChannels + 1)..Len(node_feats[i]) :
                IsFinite(node_feats[i][x]) /\ node_feats[i][x] # Zero
          /\ IsFinite(LinearReadoutBlock(model, layer, node_feats[i]))

Reverse(n) == [k \in 1..n |-> n + 1 - k]
Inverse(p) == [x \in DOMAIN p |-> CHOOSE k \in DOMAIN p : p[k] = x]

\* Batch b with its edge list taken in the order p.
PermuteEdges(b, p) ==
    [b EXCEPT !.edge_index = [e \in 1..Len(b.edge_index) |-> b.edge_index[p[e]]],
              !.shifts = [e \in 1..Len(b.shifts) |-> b.shifts[p[e]]]]

\* Batch b with its nodes taken in the order p (node i is the old node p[i]).
PermuteNodes(b, p) ==
    LET inv == Inverse(p)
    IN [b EXCEPT !.positions = [i \in 1..b.num_nodes |-> b.positions[p[i]]],
                 !.node_attrs = [i \in 1..b.num_nodes |-> b.node_attrs[p[i]]],
                 !.batch = [i \in 1..b.num_nodes |-> b.batch[p[i]]],
                 !.edge_index = [e \in 1..Len(b.edge_index) |->
                                   <<inv[b.edge_index[e][1]], inv[b.edge_index[e][2]]>>]]

\* Batch b with its nodes and its edges both taken in the reverse order.
Reordered(b) ==
    PermuteNodes(PermuteEdges(b, Reverse(Len(b.edge_index))), Reverse(b.num_nodes))

FrameStep ==
    /\ model' = model
    /\ pc # "spherical_harmonics" => edge_attrs' = edge_attrs
    /\ pc # "radial_embedding" => edge_feats' = edge_feats

BlockAt(row, l) == SubSeq(row, l * l + 1, (l + 1) * (l + 1))

C14_RadialTruncation ==
    model.r_max > 0 =>
      /\ \A k \in 1..Len(radials) :
            /\ Len(radials[k]) = num_bessel
            /\ \A n \in 1..num_bessel :
                  /\ dists[k] >= model.r_max => radials[k][n] = Zero
                  /\ (0 < dists[k] /\ dists[k] < model.r_max) => IsFinite(radials[k][n])
      /\ \A e \in 1..Len(edge_feats) :
            /\ Len(edge_feats[e]) = num_bessel
            /\ \A n \in 1..num_bessel :
                  /\ lengths[e] >= model.r_max => edge_feats[e][n] = Zero
                  /\ (0 < lengths[e] /\ lengths[e] < model.r_max) =>
                        IsFinite(edge_feats[e][n])

\* The basis has been sampled beyond the cutoff and next to 0, and the
\* batch has an edge at the cutoff and a shorter one whose features are not
\* all zero.
C14_Witness ==
    /\ model.r_max > 1
    /\ \E k \in 1..Len(radials) : dists[k] > model.r_max
    /\ \E k \in 1..Len(radials) : dists[k] = 1 /\ radials[k][1] # Zero
    /\ \E e \in 1..Len(edge_feats) : lengths[e] = model.r_max
    /\ \E e \in 1..Len(edge_feats) :
          lengths[e] < model.r_max /\ edge_feats[e][1] # Zero

\* C15: the symmetric contraction of a layer takes the atomic basis the
\* interaction ends with, the linear mixing of the neighbour-summed
\* message, and not the message before that mixing.
C15_ContractionReadsMixedBasis ==
    pc = "readout" =>
       node_feats = product(model, layer, reshape(linear(model, layer, message)),
                            batch.node_attrs)

\* The path column y of a row of layer s belongs to.
PathOf(s, y) == Paths(s)[BlockOf(y) + 1]

\* C16: the weight vector of an edge has one scalar per channel and per
\* coupling path (node degree, angular degree, output degree) that obeys
\* the triangle rule, and for the first layer, whose incoming node features
\* have degree 0 only, that is 224 scalars at 32 channels, 7 per channel.
C16_WeightCount ==
    pc = "conv_tp" =>
      \A e \in 1..Len(tp_weights) :
         /\ Len(tp_weights[e]) = NumChannels * Len(Paths(layer))
         /\ \A y \in 1..Len(tp_weights[e]) :
               /\ PathOf(layer, y)[2] \in 0..NodeLs(layer)
               /\ PathOf(layer, y)[1] \in 0..max_ell
               /\ Abs(PathOf(layer, y)[2] - PathOf(layer, y)[1]) <= PathOf(layer, y)[3]
               /\ PathOf(layer, y)[3] <= PathOf(layer, y)[2] + PathOf(layer, y)[1]
         /\ layer = 1 => 32 * Len(tp_weights[e]) = 224 * NumChannels

\* The components m3 = -l3 .. l3 that column y of a message row of layer s
\* stands for.
Components(s, y) == 2 * PathOf(s, y)[3] + 1
\* mji.shape[-1]: the components of all the columns of a row.
mji_dim(s, row) == SumTo([y \in 1..Len(row) |-> Components(s, y)], Len(row))

\* C17: the message tensor has one row per edge and its second dimension
\* is num_channels * num_paths * (l3 + 1)^2, the last factor being 9.
C17_MessageSize ==
    pc = "scatter_sum" =>
      /\ Len(mji) = Len(batch.edge_index)
      /\ \A e \in 1..Len(mji) :
            mji_dim(layer, mji[e])
              = NumChannels * Len(Paths(layer)) * (max_ell + 1) * (max_ell + 1)

=============================================================================
